---- MODULE Spec2Model ----
(***************************************************************************)
(* CloudPrivs, providers/aws: a Service (one AWS service) is constructed    *)
(* from a session and scanned over a shared ThreadPoolExecutor (service.py);*)
(* the aws command calls scan_service for each target service, which scans  *)
(* it, formats the report and echoes it (cli.py).                           *)
(* Names (regions, region filters, client methods) are strings; Python's   *)
(* `in` and str.startswith are computed on their characters.               *)
(***************************************************************************)
EXTENDS Integers, Sequences, FiniteSets, TLC

VARIABLES
    session_regions,        \* session.get_available_regions(service)
    region_filter,          \* the `regions` argument of Service.__init__
    methods,                \* clients[0].meta.method_to_api_mapping.keys()
    max_workers,            \* size of the ThreadPoolExecutor handed to Service
    pc,                     \* position of the thread that constructs and scans
    regions,                \* self.regions
    operations,             \* self.operations
    submitted,              \* scan: number of clients already submitted
    work_queue,             \* executor._work_queue (FIFO)
    task,                   \* per client: the test_all_operations task
    probe,                  \* per client, per operation: the test_permission future
    results,                \* per client: `results` of test_all_operations
    operation_permissions,  \* scan: the collected OperationPermissions
    report,                 \* scan: operation_permissions_by_region
    service_name,           \* the service scan_service is called for
    injected_args,          \* injected_vars: service name -> rules (the YAML)
    verbose,                \* the --verbose flag
    set_order,              \* the order in which this run's sets iterate
    pending_services,       \* target_services still ahead of service_name
    formatted,              \* the lists pretty_print_scan has returned
    output,                 \* what scan_service has echoed, per service
    futures                 \* aws: what it has submitted, one future per service

vars == <<session_regions, region_filter, methods, max_workers, pc, regions,
          operations, submitted, work_queue, task, probe, results,
          operation_permissions, report, service_name, injected_args, verbose,
          set_order, pending_services, formatted, output, futures>>

\* what a run of the command is given
inputs == <<session_regions, region_filter, methods, max_workers, service_name,
            injected_args, verbose, set_order, pending_services>>

----------------------------------------------------------------------------
(* Bounds of the model *)

MaxWorkers == 3
MaxProbes == 4
MaxCalls == 2

----------------------------------------------------------------------------
(* Strings *)

\* Python: f in r
IsSubstring(f, r) ==
    \E i \in 0..(Len(r) - Len(f)) : SubSeq(r, i + 1, i + Len(f)) = f

\* Python: op.startswith(pattern)
StartsWith(op, pattern) ==
    /\ Len(pattern) <= Len(op)
    /\ SubSeq(op, 1, Len(pattern)) = pattern

SeqToSet(s) == {s[i] : i \in 1..Len(s)}

NoDuplicates(s) == \A i, j \in 1..Len(s) : i # j => s[i] # s[j]

----------------------------------------------------------------------------
(* Service.__init__ *)

GlobalRegion == "aws-global"

_operation_safety_filters == {"get_", "list_", "describe_"}

\* the inner loop: one append per filter that is a substring of the region
RECURSIVE MatchRegion(_, _)
MatchRegion(region, filters) ==
    IF filters = <<>> THEN <<>>
    ELSE (IF IsSubstring(Head(filters), region) THEN <<region>> ELSE <<>>)
         \o MatchRegion(region, Tail(filters))

\* the outer loop over self.regions
RECURSIVE FilterRegions(_, _)
FilterRegions(avail, filters) ==
    IF avail = <<>> THEN <<>>
    ELSE MatchRegion(Head(avail), filters) \o FilterRegions(Tail(avail), filters)

\* a filter list that leaves the global pseudo-region out
RegionFilterListWithoutGlobal(filters) == filters

\* the filter list the loops run over
RegionFilterList(filters) == Append(filters, GlobalRegion)

\* self.regions after the constructor's region handling
ResolveRegions(avail, filters) ==
    LET base == IF avail = <<>> THEN <<GlobalRegion>> ELSE avail
    IN  IF filters # <<>>
        THEN FilterRegions(base, RegionFilterList(filters))
        ELSE base

\* one append per safety pattern the method name starts with
MatchOperation(op) ==
    LET n == Cardinality({p \in _operation_safety_filters : StartsWith(op, p)})
    IN  [i \in 1..n |-> op]

\* a discovery that keeps every method of the client
DiscoverEveryMethod(ms) == ms

\* self.operations
RECURSIVE DiscoverOperations(_)
DiscoverOperations(ms) ==
    IF ms = <<>> THEN <<>>
    ELSE MatchOperation(Head(ms)) \o DiscoverOperations(Tail(ms))

----------------------------------------------------------------------------
(* Service.test_permission *)

NoResponse == "None"

\* what getattr(client, operation)(*args, **kwargs) does: it returns, or it raises
\* an exception; a botocore ClientError carries e.response["Error"]["Code"]
ErrorCodes == {"ClientError", "AccessDenied", "ResourceNotFoundException"}

NoError == [exc |-> "None", code |-> "None"]

InvokeResults ==
    {[exc |-> e, code |-> "None"] :
        e \in {"None", "ParamValidationError", "NoAuthTokenError",
               "ConnectTimeoutError", "EndpointConnectionError",
               "AttributeError", "ReadTimeoutError"}}
    \cup {[exc |-> "ClientError", code |-> c] : c \in ErrorCodes}

OperationPermissions(name, region, status, res, error) ==
    [name |-> name, region |-> region, status |-> status,
     results |-> res, error |-> error]

\* a test_permission that takes every ClientError for a denial
TestPermissionEveryClientErrorFails(operation, region, raw) ==
    CASE raw.exc = "None" ->
            [raised |-> "None",
             value |-> OperationPermissions(operation, region, "SUCCEEDED",
                                            "response", NoError)]
      [] raw.exc \in {"ParamValidationError", "NoAuthTokenError"} ->
            [raised |-> "None",
             value |-> OperationPermissions(operation, region, "ERRORED",
                                            NoResponse, raw)]
      [] raw.exc = "ClientError" ->
            [raised |-> "None",
             value |-> OperationPermissions(operation, region, "FAILED",
                                            NoResponse, raw)]
      [] OTHER ->
            [raised |-> raw.exc,
             value |-> OperationPermissions(operation, region, "None",
                                            NoResponse, raw)]

\* the try/except of test_permission: the OperationPermissions it returns, or the
\* exception that leaves it
TestPermission(operation, region, raw) ==
    CASE raw.exc = "None" ->
            [raised |-> "None",
             value |-> OperationPermissions(operation, region, "SUCCEEDED",
                                            "response", NoError)]
      [] raw.exc \in {"ParamValidationError", "NoAuthTokenError"} ->
            [raised |-> "None",
             value |-> OperationPermissions(operation, region, "ERRORED",
                                            NoResponse, raw)]
      [] raw.exc = "ClientError" ->
            [raised |-> "None",
             value |-> OperationPermissions(operation, region,
                          IF raw.code # "ClientError" THEN "SUCCEEDED" ELSE "FAILED",
                          NoResponse, raw)]
      [] OTHER ->
            [raised |-> raw.exc,
             value |-> OperationPermissions(operation, region, "None",
                                            NoResponse, raw)]

\* a future that has not run: no call made, nothing to return
NoCall == [exc |-> "pending", code |-> "None"]
NoResult ==
    [raised |-> "pending",
     value |-> OperationPermissions("None", "None", "None", NoResponse, NoError)]

----------------------------------------------------------------------------
(* Service.test_all_operations: the handling of one completed future *)

\* a handler that records a connection timeout as an errored test
HandleFutureTimeoutErrored(res, outcome) ==
    CASE outcome.raised = "None" ->
            [results |-> Append(res, outcome.value), raised |-> "None"]
      [] outcome.raised \in {"ConnectTimeoutError", "EndpointConnectionError"} ->
            [results |-> Append(res, [outcome.value EXCEPT !.status = "ERRORED"]),
             raised |-> "None"]
      [] outcome.raised = "AttributeError" ->
            [results |-> res, raised |-> outcome.raised]
      [] OTHER ->
            [results |-> res, raised |-> "None"]

\* try: results.append(future.result()) / except ...: the new results list, and
\* the exception that leaves test_all_operations ("None" when it goes on)
HandleFuture(res, outcome) ==
    CASE outcome.raised = "None" ->
            [results |-> Append(res, outcome.value), raised |-> "None"]
      [] outcome.raised \in {"ConnectTimeoutError", "EndpointConnectionError"} ->
            [results |-> res, raised |-> "None"]
      [] outcome.raised = "AttributeError" ->
            [results |-> res, raised |-> outcome.raised]
      [] OTHER ->
            [results |-> res, raised |-> "None"]

----------------------------------------------------------------------------
(* Service.scan: the translation into OperationPermissionsByRegion *)

EmptyReport == [n \in {} |-> {}]

OperationPermissionsByRegion(name) ==
    [name |-> name, regions_tested |-> {}, succeeded |-> <<>>,
     failed |-> <<>>, errored |-> <<>>]

\* a translation that keeps only the latest result of an operation
AddOperationOverwriting(by_region, operation) ==
    LET old == OperationPermissionsByRegion(operation.name)
        new == [old EXCEPT
                  !.regions_tested = {operation.region},
                  !.succeeded = IF operation.status = "SUCCEEDED"
                                THEN <<operation>> ELSE <<>>,
                  !.failed = IF operation.status = "FAILED"
                             THEN <<operation>> ELSE <<>>,
                  !.errored = IF operation.status = "ERRORED"
                              THEN <<operation>> ELSE <<>>]
    IN  [n \in DOMAIN by_region \cup {operation.name} |->
            IF n = operation.name THEN new ELSE by_region[n]]

\* one iteration of the translation loop
AddOperation(by_region, operation) ==
    LET old == IF operation.name \in DOMAIN by_region
               THEN by_region[operation.name]
               ELSE OperationPermissionsByRegion(operation.name)
        new == [old EXCEPT
                  !.regions_tested = @ \cup {operation.region},
                  !.succeeded = IF operation.status = "SUCCEEDED"
                                THEN Append(@, operation) ELSE @,
                  !.failed = IF operation.status = "FAILED"
                             THEN Append(@, operation) ELSE @,
                  !.errored = IF operation.status = "ERRORED"
                              THEN Append(@, operation) ELSE @]
    IN  [n \in DOMAIN by_region \cup {operation.name} |->
            IF n = operation.name THEN new ELSE by_region[n]]

RECURSIVE Translate(_, _)
Translate(by_region, ops) ==
    IF ops = <<>> THEN by_region
    ELSE Translate(AddOperation(by_region, Head(ops)), Tail(ops))

----------------------------------------------------------------------------
(* Service._get_custom_args *)

\* one rule of the YAML structure: a one-key dict, rule name -> rule; the rule is
\* a dict that holds "args" (a list) and "kwargs" (a dict), or omits them
Rule(rule_name, rule) == [rule_name |-> rule_name, rule |-> rule]

NoKwargs == [x \in {} |-> 0]

\* dict.update
Update(kwargs, more) ==
    [x \in DOMAIN kwargs \cup DOMAIN more |->
        IF x \in DOMAIN more THEN more[x] ELSE kwargs[x]]

CustomArgs(raised, args, kwargs) ==
    [raised |-> raised, args |-> args, kwargs |-> kwargs]

\* a loop that goes on after a match and merges every matching rule
RECURSIVE ApplyEveryRule(_, _, _, _)
ApplyEveryRule(rules, operation, args, kwargs) ==
    IF rules = <<>> THEN CustomArgs("None", args, kwargs)
    ELSE IF ~ IsSubstring(Head(rules).rule_name, operation)
    THEN ApplyEveryRule(Tail(rules), operation, args, kwargs)
    ELSE LET rule == Head(rules).rule
         IN  IF "kwargs" \notin DOMAIN rule \/ "args" \notin DOMAIN rule
             THEN CustomArgs("KeyError", args, kwargs)
             ELSE ApplyEveryRule(Tail(rules), operation, args \o rule.args,
                                 Update(kwargs, rule.kwargs))

\* the for loop: the first rule whose name is in the operation is applied, and
\* the loop breaks; rule["kwargs"] and rule["args"] raise KeyError on a dict
\* without the key
RECURSIVE ApplyFirstRule(_, _, _, _)
ApplyFirstRule(rules, operation, args, kwargs) ==
    IF rules = <<>> THEN CustomArgs("None", args, kwargs)
    ELSE IF ~ IsSubstring(Head(rules).rule_name, operation)
    THEN ApplyFirstRule(Tail(rules), operation, args, kwargs)
    ELSE LET rule == Head(rules).rule
         IN  IF "kwargs" \notin DOMAIN rule \/ "args" \notin DOMAIN rule
             THEN CustomArgs("KeyError", args, kwargs)
             ELSE CustomArgs("None", args \o rule.args,
                             Update(kwargs, rule.kwargs))

\* a lookup that merges every matching rule
GetCustomArgsOfEveryMatch(injected, service, operation) ==
    IF service \notin DOMAIN injected
    THEN CustomArgs("None", <<>>, NoKwargs)
    ELSE ApplyEveryRule(injected[service], operation, <<>>, NoKwargs)

\* the (args, kwargs) returned, or the exception raised
_get_custom_args(injected, service, operation) ==
    IF service \notin DOMAIN injected
    THEN CustomArgs("None", <<>>, NoKwargs)
    ELSE ApplyFirstRule(injected[service], operation, <<>>, NoKwargs)

----------------------------------------------------------------------------
(* Service.pretty_print_scan *)

RegionsOf(entries) == {entries[x].region : x \in 1..Len(entries)}

\* scan_results.items() goes through the keys in the order of their insertion:
\* the order of first appearance in the list the translation loop went through
KeyOrder(ops) ==
    LET first == {i \in 1..Len(ops) :
                     \A j \in 1..(i - 1) : ops[j].name # ops[i].name}
    IN  [n \in 1..Cardinality(first) |->
            ops[CHOOSE i \in first :
                   Cardinality({j \in first : j <= i}) = n].name]

\* the region names of the model, in a fixed order
RegionNames == <<"aws-global", "eu-west-1", "us-east-1", "us-west-2">>

Reverse(s) == [i \in 1..Len(s) |-> s[Len(s) + 1 - i]]

\* iteration over a set of strings: some order, the same for equal sets built
\* the same way within one run
Iterate(S, order) ==
    LET forward == SelectSeq(RegionNames, LAMBDA r : r \in S)
    IN  IF order = "forward" THEN forward ELSE Reverse(forward)

\* str.join
RECURSIVE Join(_, _)
Join(sep, strs) ==
    IF strs = <<>> THEN ""
    ELSE IF Len(strs) = 1 THEN strs[1]
    ELSE strs[1] \o sep \o Join(sep, Tail(strs))

\* results_marker_map
Markers(only_hits) == IF only_hits THEN <<"+">> ELSE <<"+", "-", "!">>

TestResults(by_region, marker) ==
    CASE marker = "+" -> by_region.succeeded
      [] marker = "-" -> by_region.failed
      [] marker = "!" -> by_region.errored

Line(marker, operation, text) ==
    "[" \o marker \o "] " \o operation \o " - " \o text

\* a formatter that writes "All Regions" for every non-empty outcome
FormatMarkerAlwaysAllRegions(by_region, operation, marker, order) ==
    LET rs == RegionsOf(TestResults(by_region, marker))
    IN  IF rs = {} THEN <<>>
        ELSE <<Line(marker, operation, "All Regions")>>

\* the body of the inner loop: the lines one marker of one operation adds
FormatMarker(by_region, operation, marker, order) ==
    LET rs == RegionsOf(TestResults(by_region, marker))
    IN  IF rs = {} THEN <<>>
        ELSE IF rs = by_region.regions_tested
        THEN <<Line(marker, operation, "All Regions")>>
        ELSE <<Line(marker, operation, Join(",", Iterate(rs, order)))>>

RECURSIVE FormatMarkers(_, _, _, _)
FormatMarkers(by_region, operation, markers, order) ==
    IF markers = <<>> THEN <<>>
    ELSE FormatMarker(by_region, operation, Head(markers), order)
            \o FormatMarkers(by_region, operation, Tail(markers), order)

RECURSIVE FormatOperations(_, _, _, _)
FormatOperations(scan_results, keys, only_hits, order) ==
    IF keys = <<>> THEN <<>>
    ELSE FormatMarkers(scan_results[Head(keys)], Head(keys),
                       Markers(only_hits), order)
            \o FormatOperations(scan_results, Tail(keys), only_hits, order)

\* a formatter that takes the entries out of the report as it prints them
PrettyPrintScanConsuming(scan_results, keys, only_hits, order) ==
    [formatted_results |->
        FormatOperations(scan_results, keys, only_hits, order),
     scan_results |->
        [n \in DOMAIN scan_results |->
            [scan_results[n] EXCEPT !.succeeded = <<>>]]]

\* pretty_print_scan: the list it returns, and scan_results as the call leaves it
\* (the function assigns to nothing but its own list)
PrettyPrintScan(scan_results, keys, only_hits, order) ==
    [formatted_results |->
        FormatOperations(scan_results, keys, only_hits, order),
     scan_results |-> scan_results]

----------------------------------------------------------------------------
(* cli.py, scan_service: what is echoed for one service *)

Title(service) == "=== " \o service \o " ==="

NotAvailable(service) ==
    "[!] Service: " \o service \o " is not available in the regions supplied"

\* a scan_service that lets every exception through
ScanServiceCatchesNothing(exc) == FALSE

\* except InvalidRegionError
ScanServiceCatches(exc) == exc = "InvalidRegionError"

\* the loop over results and the echoes: the title and the three groups, each
\* echoed in sorted order, hence determined by the set of its lines
Echo(lines) ==
    LET titles == {x \in 1..Len(lines) : StartsWith(lines[x], "=")}
        At(prefix) == {lines[x] : x \in {y \in 1..Len(lines) \ titles :
                                           StartsWith(lines[y], prefix)}}
    IN  [title |-> IF titles = {} THEN ""
                   ELSE lines[CHOOSE x \in titles : \A y \in titles : y <= x],
         successes |-> At("[+]"),
         fails |-> At("[-]"),
         errors |-> {lines[x] : x \in 1..Len(lines) \ titles}
                       \ (At("[+]") \cup At("[-]"))]

----------------------------------------------------------------------------
(* The inputs of one run *)

\* inputs of the constructor alone
SessionRegionLists ==
    {<<>>, <<"us-east-1">>, <<"us-east-1", "us-west-2">>,
     <<"us-east-1", "eu-west-1", "aws-global">>}

FilterStrings == {"us", "us-east", "eu", "ap", "global"}

RegionFilters ==
    {<<>>} \cup {<<f>> : f \in FilterStrings}
           \cup {<<f, g>> : f, g \in FilterStrings}

MethodLists ==
    {<<>>, <<"create_thing">>, <<"list_things">>,
     <<"create_thing", "get_thing">>,
     <<"list_things", "describe_thing", "create_thing">>}

\* inputs of a scan
ScanRegionLists == {<<"us-east-1">>, <<"us-east-1", "us-west-2">>}

ScanFilters == {<<>>, <<"us", "us-east">>, <<"eu">>}

ScanMethodLists ==
    {<<"create_thing">>, <<"list_things">>,
     <<"list_things", "describe_thing", "create_thing">>}

Clients == 1..Len(regions)
OpIndex == 1..Len(operations)

\* nothing constructed, nothing formatted, nothing echoed
Fresh ==
    /\ pc = "new"
    /\ regions = <<>>
    /\ operations = <<>>
    /\ submitted = 0
    /\ work_queue = <<>>
    /\ task = <<>>
    /\ probe = <<>>
    /\ results = <<>>
    /\ operation_permissions = <<>>
    /\ report = EmptyReport
    /\ formatted = <<>>
    /\ output = <<>>
    /\ futures = <<>>

NoInjectedArgs == [s \in {} |-> <<>>]

\* one service, no rule for it, the flags at their defaults
InitOver(region_lists, filters, method_lists) ==
    /\ session_regions \in region_lists
    /\ region_filter \in filters
    /\ methods \in method_lists
    /\ max_workers \in 1..MaxWorkers
    /\ service_name = "ec2"
    /\ injected_args = NoInjectedArgs
    /\ verbose = FALSE
    /\ set_order = "forward"
    /\ pending_services = <<>>
    /\ Fresh

Init ==
    /\ InitOver(ScanRegionLists, ScanFilters, ScanMethodLists)
    /\ Len(ResolveRegions(session_regions, region_filter))
         * Len(DiscoverOperations(methods)) <= MaxProbes

CtorInit == InitOver(SessionRegionLists, RegionFilters, MethodLists)

----------------------------------------------------------------------------
(* Service.__init__ as a step *)

Construct ==
    /\ pc = "new"
    /\ LET rs == ResolveRegions(session_regions, region_filter)
           ops == DiscoverOperations(methods)
       IN  /\ regions' = rs
           /\ IF Len(rs) > 0
              THEN /\ operations' = ops
                   /\ pc' = "submit"
                   /\ task' = [i \in 1..Len(rs) |->
                                 [st |-> "unsubmitted", next |-> 1, done |-> {},
                                  exc |-> "None"]]
                   /\ probe' = [i \in 1..Len(rs) |->
                                  [k \in 1..Len(ops) |->
                                     [st |-> "unsubmitted", args |-> <<>>,
                                      kwargs |-> NoKwargs, raw |-> NoCall,
                                      result |-> NoResult]]]
                   /\ results' = [i \in 1..Len(rs) |-> <<>>]
                   /\ UNCHANGED output
              ELSE \* raise InvalidRegionError: scan_service catches it and
                   \* echoes that the service is not available
                   /\ IF ScanServiceCatches("InvalidRegionError")
                      THEN /\ pc' = "invalid_region"
                           /\ output' = Append(output,
                                           Echo(<<Title(service_name),
                                                  NotAvailable(service_name)>>))
                      ELSE /\ pc' = "raised"
                           /\ UNCHANGED output
                   /\ UNCHANGED <<operations, task, probe, results>>
    /\ UNCHANGED <<inputs, formatted, futures,
                   submitted, work_queue, operation_permissions, report>>

----------------------------------------------------------------------------
(* The ThreadPoolExecutor *)

TestAllOperationsTask(i) == [fn |-> "test_all_operations", client |-> i, op |-> 0]
TestPermissionTask(i, k) == [fn |-> "test_permission", client |-> i, op |-> k]

\* what aws submits for its x-th target service: the value scan_service returned
ScanServiceResultTask(x) == [fn |-> "None", client |-> 0, op |-> x]

\* tasks that hold a worker thread
RunningAll == {i \in Clients : task[i].st \in {"submitting", "collecting"}}
RunningProbes ==
    {<<i, k>> \in Clients \X OpIndex : probe[i][k].st = "running"}

\* a pool that charges no worker for a running probe
BusyWithClientTasksOnly == Cardinality(RunningAll)

\* the workers in use
Busy == Cardinality(RunningAll) + Cardinality(RunningProbes)

\* a free worker takes the head of the queue and starts it; calling the None
\* that aws submitted raises TypeError at once, which the future keeps
StartTask ==
    /\ work_queue # <<>>
    /\ Busy < max_workers
    /\ LET t == Head(work_queue)
       IN  CASE t.fn = "test_all_operations" ->
                /\ task' = [task EXCEPT ![t.client].st =
                              IF operations = <<>> THEN "returned" ELSE "submitting"]
                /\ UNCHANGED <<probe, futures>>
             [] t.fn = "test_permission" ->
                /\ probe' = [probe EXCEPT ![t.client][t.op].st = "running"]
                /\ UNCHANGED <<task, futures>>
             [] OTHER ->
                /\ futures' = [futures EXCEPT ![t.op].st = "done",
                                              ![t.op].exc = "TypeError"]
                /\ UNCHANGED <<task, probe>>
    /\ work_queue' = Tail(work_queue)
    /\ UNCHANGED <<inputs, formatted, output, pc,
                   regions, operations, submitted, results,
                   operation_permissions, report>>

\* the worker's call of test_permission ends: the provider call has returned
\* or raised
FinishProbe(i, k) ==
    /\ probe[i][k].st = "running"
    /\ \E raw \in InvokeResults :
          probe' = [probe EXCEPT
                      ![i][k].st = "finished",
                      ![i][k].raw = raw,
                      ![i][k].result =
                          TestPermission(operations[k], regions[i], raw)]
    /\ UNCHANGED <<inputs, formatted, output, futures, pc,
                   regions, operations, submitted, work_queue, task, results,
                   operation_permissions, report>>

----------------------------------------------------------------------------
(* Service.test_all_operations *)

\* the submit loop: one _get_custom_args and one executor.submit per step; an
\* exception of the lookup leaves test_all_operations
SubmitProbe(i) ==
    /\ task[i].st = "submitting"
    /\ LET k == task[i].next
           custom == _get_custom_args(injected_args, service_name, operations[k])
       IN  IF custom.raised # "None"
           THEN /\ task' = [task EXCEPT ![i].st = "raised",
                                        ![i].exc = custom.raised]
                /\ UNCHANGED <<work_queue, probe>>
           ELSE /\ work_queue' = Append(work_queue, TestPermissionTask(i, k))
                /\ probe' = [probe EXCEPT ![i][k].st = "queued",
                                          ![i][k].args = custom.args,
                                          ![i][k].kwargs = custom.kwargs]
                /\ task' = [task EXCEPT
                              ![i].next = k + 1,
                              ![i].st = IF k = Len(operations)
                                        THEN "collecting" ELSE "submitting"]
    /\ UNCHANGED <<inputs, formatted, output, futures, pc,
                   regions, operations, submitted, results,
                   operation_permissions, report>>

\* as_completed yields one finished future; the loop body handles it; after the
\* last one the function returns
CollectProbe(i) ==
    /\ task[i].st = "collecting"
    /\ \E k \in OpIndex \ task[i].done :
          /\ probe[i][k].st = "finished"
          /\ LET h == HandleFuture(results[i], probe[i][k].result)
                 done == task[i].done \cup {k}
             IN  /\ results' = [results EXCEPT ![i] = h.results]
                 /\ task' = [task EXCEPT
                               ![i].done = done,
                               ![i].exc = h.raised,
                               ![i].st = IF h.raised # "None" THEN "raised"
                                         ELSE IF done = OpIndex THEN "returned"
                                         ELSE "collecting"]
    /\ UNCHANGED <<inputs, formatted, output, futures, pc,
                   regions, operations, submitted, work_queue, probe,
                   operation_permissions, report>>

----------------------------------------------------------------------------
(* Service.scan *)

\* the dict comprehension: one executor.submit per client
SubmitClient ==
    /\ pc = "submit"
    /\ LET i == submitted + 1
       IN  /\ work_queue' = Append(work_queue, TestAllOperationsTask(i))
           /\ task' = [task EXCEPT ![i].st = "queued"]
           /\ submitted' = i
           /\ pc' = IF i = Len(regions) THEN "collect" ELSE "submit"
    /\ UNCHANGED <<inputs, formatted, output, futures,
                   regions, operations, probe, results,
                   operation_permissions, report>>

\* a scan that folds the results into the aggregate as each client is collected
ScanResultsFoldedEarly(all, last) == Translate(EmptyReport, all)

\* operation_permissions_by_region after one round of the as_completed loop: the
\* translation loop runs once the last future has been collected
ScanResults(all, last) ==
    IF last THEN Translate(EmptyReport, all) ELSE report

\* as_completed yields one finished test_all_operations future; future.result()
\* returns its list or raises its exception; after the last one the translation
\* loop runs, scan returns, and scan_service formats and echoes the result
CollectClient ==
    /\ pc = "collect"
    /\ \E i \in Clients :
          /\ task[i].st \in {"returned", "raised"}
          /\ IF task[i].st = "raised"
             THEN /\ pc' = "raised"
                  /\ UNCHANGED <<task, operation_permissions, report,
                                 formatted, output>>
             ELSE LET all == operation_permissions \o results[i]
                      last == \A j \in Clients \ {i} : task[j].st = "collected"
                      printed == PrettyPrintScan(ScanResults(all, last),
                                                 KeyOrder(all), ~ verbose,
                                                 set_order)
                  IN  /\ task' = [task EXCEPT ![i].st = "collected"]
                      /\ operation_permissions' = all
                      /\ pc' = IF last THEN "done" ELSE "collect"
                      /\ IF last
                         THEN /\ report' = printed.scan_results
                              /\ formatted' = <<printed.formatted_results>>
                              /\ output' =
                                    Append(output,
                                           Echo(<<Title(service_name)>>
                                                \o printed.formatted_results))
                         ELSE /\ report' = ScanResults(all, last)
                              /\ UNCHANGED <<formatted, output>>
    /\ UNCHANGED <<inputs, futures,
                   regions, operations, submitted, work_queue, probe, results>>

----------------------------------------------------------------------------
Next ==
    \/ Construct
    \/ SubmitClient
    \/ StartTask
    \/ \E i \in Clients : SubmitProbe(i)
    \/ \E i \in Clients, k \in OpIndex : FinishProbe(i, k)
    \/ \E i \in Clients : CollectProbe(i)
    \/ CollectClient

Spec == Init /\ [][Next]_vars

\* the constructor alone, over a wider range of inputs
CtorNext == Construct

CtorSpec == CtorInit /\ [][CtorNext]_vars

----------------------------------------------------------------------------
(* cli.py, aws: the loop over target_services *)

TargetService(name, available, ms) ==
    [name |-> name, regions |-> available, methods |-> ms]

\* services a run may target: one in two regions, one with no region of its own,
\* one in one region
Services ==
    {TargetService("ec2", <<"us-east-1", "eu-west-1">>, <<"list_things">>),
     TargetService("iam", <<>>, <<"list_things", "create_thing">>),
     TargetService("sqs", <<"us-east-1">>, <<"list_things", "describe_thing">>)}

RunFilters == {<<>>, <<"eu">>}

\* two target services, scanned one after the other
RunInit ==
    /\ \E first, second \in Services :
          /\ first # second
          /\ service_name = first.name
          /\ session_regions = first.regions
          /\ methods = first.methods
          /\ pending_services = <<second>>
    /\ region_filter \in RunFilters
    /\ max_workers \in 1..MaxWorkers
    /\ injected_args = NoInjectedArgs
    /\ verbose \in BOOLEAN
    /\ set_order \in {"forward", "backward"}
    /\ Fresh

\* executor.submit(scan_service(...)): the argument is evaluated first, so
\* scan_service has run on the calling thread and the future is for its return
\* value, None
ServiceFuture(service) ==
    [service |-> service, fn |-> "None", st |-> "queued", exc |-> "None"]

\* scan_service has returned for service_name (its scan is done, or its
\* InvalidRegionError was caught): its return value is submitted to the executor,
\* and the comprehension calls scan_service for the next target service, which
\* constructs a new Service on the same executor
NextService ==
    /\ pc \in {"done", "invalid_region"}
    /\ pending_services # <<>>
    /\ futures' = Append(futures, ServiceFuture(service_name))
    /\ work_queue' = Append(work_queue, ScanServiceResultTask(Len(futures) + 1))
    /\ service_name' = Head(pending_services).name
    /\ session_regions' = Head(pending_services).regions
    /\ methods' = Head(pending_services).methods
    /\ pending_services' = Tail(pending_services)
    /\ pc' = "new"
    /\ regions' = <<>>
    /\ operations' = <<>>
    /\ submitted' = 0
    /\ task' = <<>>
    /\ probe' = <<>>
    /\ results' = <<>>
    /\ operation_permissions' = <<>>
    /\ report' = EmptyReport
    /\ formatted' = <<>>
    /\ UNCHANGED <<region_filter, max_workers, injected_args, verbose, set_order,
                   output>>

\* scan_service has returned for the last target service: its return value is
\* submitted and the comprehension ends
LastService ==
    /\ pc \in {"done", "invalid_region"}
    /\ pending_services = <<>>
    /\ futures' = Append(futures, ServiceFuture(service_name))
    /\ work_queue' = Append(work_queue, ScanServiceResultTask(Len(futures) + 1))
    /\ pc' = "wait"
    /\ UNCHANGED <<inputs, regions, operations, submitted, task, probe, results,
                   operation_permissions, report, formatted, output>>

\* for _ in as_completed(futures): pass; the exceptions the futures hold are
\* never asked for, and aws returns
AwsReturns ==
    /\ pc = "wait"
    /\ \A x \in 1..Len(futures) : futures[x].st = "done"
    /\ pc' = "returned"
    /\ UNCHANGED <<inputs, regions, operations, submitted, work_queue, task,
                   probe, results, operation_permissions, report, formatted,
                   output, futures>>

RunNext == Next \/ NextService \/ LastService \/ AwsReturns

RunSpec == RunInit /\ [][RunNext]_vars

----------------------------------------------------------------------------
(* Scans of a service with rules in injected_args *)

ArgsMethodLists ==
    {<<"describe_specific_thing">>, <<"describe_other">>, <<"list_other">>}

\* rules with both parts, rules that omit a part, a rule with both parts empty
ArgsRules ==
    {Rule("describe_specific", [args |-> <<1>>, kwargs |-> [a |-> 1]]),
     Rule("describe", [args |-> <<2>>, kwargs |-> [a |-> 2]]),
     Rule("describe", [args |-> <<2>>]),
     Rule("describe", [kwargs |-> [a |-> 2]]),
     Rule("describe", <<>>),
     Rule("list", [args |-> <<>>, kwargs |-> NoKwargs])}

ArgsRuleLists ==
    {<<>>} \cup {<<r>> : r \in ArgsRules} \cup {<<r, q>> : r, q \in ArgsRules}

\* the YAML: no entry for the service, or a list of rules
ArgsInjected ==
    {NoInjectedArgs, [s \in {"iam"} |-> <<Rule("list", <<>>)>>]}
        \cup {[s \in {"ec2"} |-> rules] : rules \in ArgsRuleLists}

ArgsInit ==
    /\ session_regions = <<"us-east-1">>
    /\ region_filter = <<>>
    /\ methods \in ArgsMethodLists
    /\ max_workers \in 2..MaxWorkers
    /\ service_name = "ec2"
    /\ injected_args \in ArgsInjected
    /\ verbose = FALSE
    /\ set_order = "forward"
    /\ pending_services = <<>>
    /\ Fresh

ArgsSpec == ArgsInit /\ [][Next]_vars

----------------------------------------------------------------------------
(* pretty_print_scan on its own: calls on the report of a scan *)

FormatEntries ==
    {OperationPermissions(n, r, s, NoResponse, NoError) :
        n \in {"list_things", "describe_thing"},
        r \in {"us-east-1", "us-west-2", "eu-west-1"},
        s \in {"SUCCEEDED", "FAILED", "ERRORED"}}

\* the lists of results a scan may have collected: up to three entries
FormatInputs ==
    {<<>>} \cup {<<a>> : a \in FormatEntries}
           \cup {<<a, b>> : a, b \in FormatEntries}
           \cup {<<a, b, c>> : a, b, c \in FormatEntries}

FormatInit ==
    /\ session_regions = <<>>
    /\ region_filter = <<>>
    /\ methods = <<>>
    /\ max_workers = 1
    /\ service_name = "ec2"
    /\ injected_args = NoInjectedArgs
    /\ verbose \in BOOLEAN
    /\ set_order \in {"forward", "backward"}
    /\ pending_services = <<>>
    /\ pc = "format"
    /\ regions = <<>>
    /\ operations = <<>>
    /\ submitted = 0
    /\ work_queue = <<>>
    /\ task = <<>>
    /\ probe = <<>>
    /\ results = <<>>
    /\ operation_permissions \in FormatInputs
    /\ report = Translate(EmptyReport, operation_permissions)
    /\ formatted = <<>>
    /\ output = <<>>
    /\ futures = <<>>

\* one call of pretty_print_scan on the report
PrettyPrint ==
    /\ pc = "format"
    /\ Len(formatted) < MaxCalls
    /\ LET printed == PrettyPrintScan(report, KeyOrder(operation_permissions),
                                      ~ verbose, set_order)
       IN  /\ formatted' = Append(formatted, printed.formatted_results)
           /\ report' = printed.scan_results
    /\ UNCHANGED <<inputs, futures, pc, regions, operations, submitted, work_queue, task,
                   probe, results, operation_permissions, output>>

FormatNext == PrettyPrint

FormatSpec == FormatInit /\ [][FormatNext]_vars

----------------------------------------------------------------------------
(* The shape of the state, over the inputs of every specification above *)

TypeOK ==
    /\ session_regions \in SessionRegionLists \cup {s.regions : s \in Services}
    /\ region_filter \in RegionFilters
    /\ methods \in MethodLists \cup ArgsMethodLists
                    \cup {s.methods : s \in Services}
    /\ max_workers \in 1..MaxWorkers
    /\ service_name \in {"ec2", "iam", "sqs"}
    /\ injected_args \in ArgsInjected
    /\ verbose \in BOOLEAN
    /\ set_order \in {"forward", "backward"}
    /\ Len(pending_services) <= 1
    /\ pc \in {"new", "invalid_region", "submit", "collect", "done", "raised",
              "format", "wait", "returned"}
    /\ Len(futures) <= 2
    /\ submitted \in 0..Len(regions)
    /\ DOMAIN task = Clients
    /\ DOMAIN probe = Clients
    /\ DOMAIN results = Clients
    /\ Len(formatted) <= MaxCalls
    /\ Len(output) <= 2

----------------------------------------------------------------------------
(* What a run has done, read off its futures *)

Terminated == pc \in {"done", "raised", "invalid_region"}

Finished(i, k) == probe[i][k].st = "finished"

\* the probe returned an OperationPermissions (it was not dropped)
Returned(i, k) == Finished(i, k) /\ probe[i][k].result.raised = "None"

TransientErrors == {"ConnectTimeoutError", "EndpointConnectionError"}

\* regions whose probe of operation k returned with the given status
RegionsWith(k, status) ==
    {regions[i] : i \in {j \in Clients :
        Returned(j, k) /\ probe[j][k].result.value.status = status}}

\* an OperationPermissionsByRegion up to set membership
Contents(by_region) ==
    [regions_tested |-> by_region.regions_tested,
     succeeded |-> RegionsOf(by_region.succeeded),
     failed |-> RegionsOf(by_region.failed),
     errored |-> RegionsOf(by_region.errored)]

\* the aggregate the probes' outcomes determine
ExpectedKeys ==
    {operations[k] : k \in {x \in OpIndex : \E i \in Clients : Returned(i, x)}}

ExpectedContents(k) ==
    [regions_tested |-> {regions[i] : i \in {j \in Clients : Returned(j, k)}},
     succeeded |-> RegionsWith(k, "SUCCEEDED"),
     failed |-> RegionsWith(k, "FAILED"),
     errored |-> RegionsWith(k, "ERRORED")]

ReportAsExpected ==
    /\ DOMAIN report = ExpectedKeys
    /\ \A k \in OpIndex :
          operations[k] \in DOMAIN report =>
             Contents(report[operations[k]]) = ExpectedContents(k)

\* the outcome of a probe depends only on operation and region
DeterministicProvider ==
    \A i, j \in Clients, k \in OpIndex :
        (regions[i] = regions[j] /\ Finished(i, k) /\ Finished(j, k))
            => probe[i][k].raw = probe[j][k].raw

----------------------------------------------------------------------------
(* C1: Service.scan terminates for every pool size: there is no state in   *)
(* which every worker is held by a test_all_operations task that waits on  *)
(* test_permission tasks still queued on the same pool.                    *)
C1_NoWorkerWaitsOnQueuedTask ==
    ~ /\ Cardinality(RunningAll) = max_workers
      /\ \A i \in RunningAll :
            /\ task[i].st = "collecting"
            /\ \A k \in OpIndex \ task[i].done : probe[i][k].st = "queued"

(* C2: over a deterministic provider the scan returns the same report      *)
(* contents with a pool of size 1 as with a pool of size N > 1: whatever   *)
(* the pool size, the scan does not stop before it has returned, and what  *)
(* it returns is the aggregate the probes' outcomes determine.             *)
C2_SameReportForEveryPoolSize ==
    DeterministicProvider =>
        /\ pc = "done" => ReportAsExpected
        /\ Terminated \/ ENABLED Next

(* C3: in the returned report, regions_tested of every operation is the    *)
(* union of the regions of its succeeded, failed and errored entries, and  *)
(* these three region sets are pairwise disjoint.                          *)
C3_OutcomeSetsPartitionRegionsTested ==
    pc = "done" =>
        \A n \in DOMAIN report :
            LET c == Contents(report[n])
            IN  /\ c.regions_tested = c.succeeded \cup c.failed \cup c.errored
                /\ c.succeeded \cap c.failed = {}
                /\ c.succeeded \cap c.errored = {}
                /\ c.failed \cap c.errored = {}

(* C4: test_permission classifies by the invocation's result: a normal     *)
(* return is SUCCEEDED with the response stored; ParamValidationError and  *)
(* NoAuthTokenError are ERRORED; a ClientError with the generic code       *)
(* "ClientError" is FAILED; a ClientError with any other code is SUCCEEDED *)
(* with the error stored; every result returned has one of these statuses. *)
C4_ProbeClassification ==
    \A i \in Clients, k \in OpIndex :
        Finished(i, k) =>
            LET raw == probe[i][k].raw
                r == probe[i][k].result
                v == probe[i][k].result.value
            IN  /\ raw.exc = "None" =>
                      /\ r.raised = "None"
                      /\ v.status = "SUCCEEDED"
                      /\ v.results = "response"
                /\ raw.exc \in {"ParamValidationError", "NoAuthTokenError"} =>
                      r.raised = "None" /\ v.status = "ERRORED"
                /\ (raw.exc = "ClientError" /\ raw.code = "ClientError") =>
                      r.raised = "None" /\ v.status = "FAILED"
                /\ (raw.exc = "ClientError" /\ raw.code # "ClientError") =>
                      /\ r.raised = "None"
                      /\ v.status = "SUCCEEDED"
                      /\ v.error = raw
                /\ r.raised = "None" =>
                      /\ v.status \in {"SUCCEEDED", "FAILED", "ERRORED"}
                      /\ v.name = operations[k]
                      /\ v.region = regions[i]

\* two probes of one run: a ClientError with a specific code, kept as a success
\* with its error, beside a ClientError with the generic code, a failure
C4_Witness ==
    \E i, j \in Clients, k, l \in OpIndex :
        /\ Finished(i, k) /\ Finished(j, l)
        /\ probe[i][k].raw = [exc |-> "ClientError", code |-> "ResourceNotFoundException"]
        /\ probe[i][k].result.value.status = "SUCCEEDED"
        /\ probe[i][k].result.value.error.code = "ResourceNotFoundException"
        /\ probe[j][l].raw = [exc |-> "ClientError", code |-> "ClientError"]
        /\ probe[j][l].result.value.status = "FAILED"

(* C5: a probe rejected with an authorization-denied ClientError (code     *)
(* AccessDenied) is FAILED, so a region where every call of the operation  *)
(* is denied is not in the operation's succeeded set.                      *)
DenialCodes == {"AccessDenied"}

Denied(i, k) ==
    /\ Finished(i, k)
    /\ probe[i][k].raw.exc = "ClientError"
    /\ probe[i][k].raw.code \in DenialCodes

C5_DeniedIsFailed ==
    /\ \A i \in Clients, k \in OpIndex :
          Denied(i, k) => probe[i][k].result.value.status = "FAILED"
    /\ pc = "done" =>
          \A i \in Clients, k \in OpIndex :
              (\A j \in Clients : regions[j] = regions[i] => Denied(j, k)) =>
                  \/ operations[k] \notin DOMAIN report
                  \/ regions[i] \notin RegionsOf(report[operations[k]].succeeded)

(* C6: only operations whose name starts with get_, list_ or describe_ are *)
(* ever invoked or reported, and each such method of the client is in the  *)
(* discovered operation list exactly once.                                 *)
HasSafePrefix(m) ==
    \E p \in {"get_", "list_", "describe_"} : StartsWith(m, p)

C6_OnlySafeOperations ==
    /\ \A k \in OpIndex : HasSafePrefix(operations[k])
    /\ \A x \in 1..Len(work_queue) :
          work_queue[x].fn = "test_permission" =>
              HasSafePrefix(operations[work_queue[x].op])
    /\ \A i \in Clients, k \in OpIndex :
          Returned(i, k) => HasSafePrefix(probe[i][k].result.value.name)
    /\ \A n \in DOMAIN report : HasSafePrefix(n)
    /\ pc \notin {"new", "invalid_region"} =>
          \A x \in 1..Len(methods) :
              HasSafePrefix(methods[x]) =>
                  Cardinality({k \in OpIndex : operations[k] = methods[x]}) = 1

\* a scan of a client that has create_thing has returned a report with entries
C6_Witness ==
    /\ pc = "done"
    /\ \E x \in 1..Len(methods) : methods[x] = "create_thing"
    /\ DOMAIN report = {"list_things", "describe_thing"}

(* C7: a probe that raises an exception outside the handled ones (an       *)
(* AttributeError included) is logged and left out; the exception does not *)
(* leave test_all_operations or scan, which returns the other results.     *)
Unexpected(i, k) ==
    /\ Finished(i, k)
    /\ probe[i][k].result.raised \notin ({"None"} \cup TransientErrors)

C7_UnexpectedExceptionContained ==
    \A i \in Clients :
        (\E k \in OpIndex : Unexpected(i, k)) =>
            /\ task[i].st # "raised"
            /\ pc # "raised"

(* C8: a probe whose connection times out or whose endpoint is unreachable *)
(* is dropped: it adds no entry to the results of its client, it is not    *)
(* submitted again, it does not end test_all_operations or the scan, and   *)
(* an operation all of whose probes were dropped is not in the report.     *)
Dropped(i, k) == Finished(i, k) /\ probe[i][k].result.raised \in TransientErrors

C8_TransientErrorDropped ==
    /\ \A i \in Clients :
          \A k \in task[i].done :
              Dropped(i, k) =>
                  /\ \A x \in 1..Len(results[i]) :
                        results[i][x].name # operations[k]
                  /\ \A x \in 1..Len(work_queue) :
                        work_queue[x] # TestPermissionTask(i, k)
    /\ \A i \in Clients :
          task[i].st = "raised" =>
              \E k \in task[i].done : Unexpected(i, k)
    /\ pc = "done" =>
          \A k \in OpIndex :
              /\ (\A i \in Clients : Dropped(i, k)) =>
                    operations[k] \notin DOMAIN report
              /\ operations[k] \in DOMAIN report =>
                    report[operations[k]].regions_tested =
                        {regions[i] : i \in {j \in Clients : ~Dropped(j, k)
                                                    /\ ~Unexpected(j, k)}}

\* the scan has returned a report although every probe of one operation timed out
C8_Witness ==
    /\ pc = "done"
    /\ report # EmptyReport
    /\ \E k \in OpIndex :
          /\ \A i \in Clients : Dropped(i, k)
          /\ operations[k] \notin DOMAIN report

(* C10: the resolved regions hold each region at most once, so there is    *)
(* one client per region and each (operation, region) is probed once.      *)
C10_OneClientPerRegion ==
    /\ NoDuplicates(regions)
    /\ \A i, j \in Clients, k \in OpIndex :
          (probe[i][k].st # "unsubmitted" /\ probe[j][k].st # "unsubmitted"
           /\ regions[i] = regions[j]) => i = j

----------------------------------------------------------------------------
(* The constructor over the wider inputs *)

\* self.regions before the filter is applied
AvailableRegions ==
    IF session_regions = <<>> THEN {GlobalRegion} ELSE SeqToSet(session_regions)

(* C9: with a non-empty filter list, an available region is resolved if    *)
(* and only if it is the global pseudo-region or some filter string is a   *)
(* substring of its name.                                                  *)
C9_FilteredRegions ==
    (pc # "new" /\ region_filter # <<>>) =>
        SeqToSet(regions) =
            {r \in AvailableRegions :
                \/ r = "aws-global"
                \/ \E x \in 1..Len(region_filter) :
                      IsSubstring(region_filter[x], r)}

\* us-east-1, eu-west-1 and the global pseudo-region filtered by "us"
C9_Witness ==
    /\ pc = "submit"
    /\ session_regions = <<"us-east-1", "eu-west-1", "aws-global">>
    /\ region_filter = <<"us">>
    /\ SeqToSet(regions) = {"us-east-1", "aws-global"}

(* C11: when the session lists no region for the service, the resolved     *)
(* regions are exactly the one global pseudo-region, whatever the filters, *)
(* and the constructor does not raise InvalidRegionError.                  *)
C11_NoRegionsResolveToGlobal ==
    (pc # "new" /\ session_regions = <<>>) =>
        /\ regions = <<"aws-global">>
        /\ pc # "invalid_region"

(* C12: when a non-empty region filter leaves a service no region, the      *)
(* constructor raises InvalidRegionError before a client is built or a probe *)
(* is submitted; the failure stays with that service: scan_service echoes    *)
(* that the service is not available, and the run goes on to the next target *)
(* service, or to its end after the last one.                                *)
C12_InvalidRegionConfinedToService ==
    (pc \notin {"new", "format"} /\ regions = <<>>) =>
        /\ region_filter # <<>>
        /\ pc \in {"invalid_region", "wait", "returned"}
        /\ task = <<>> /\ probe = <<>>
        /\ \A x \in 1..Len(work_queue) :
              work_queue[x].fn \notin {"test_all_operations", "test_permission"}
        /\ output # <<>>
        /\ output[Len(output)] =
              [title |-> Title(service_name), successes |-> {}, fails |-> {},
               errors |-> {NotAvailable(service_name)}]
        /\ (pc = "invalid_region" /\ pending_services # <<>>)
              => ENABLED NextService
        /\ (pc = "invalid_region" /\ pending_services = <<>>)
              => ENABLED LastService

\* the first service was not available, the second one has been scanned and
\* both are in the output
C12_Witness ==
    /\ pc = "done"
    /\ Len(output) = 2
    /\ output[1].errors = {NotAvailable("sqs")}
    /\ output[2].title = Title(service_name)
    /\ DOMAIN report # {}

----------------------------------------------------------------------------
(* The rules of the service and the lookups a scan has made *)

RulesOfService ==
    IF service_name \in DOMAIN injected_args
    THEN injected_args[service_name] ELSE <<>>

\* the positions of the rules whose name is a substring of the operation
Matching(operation) ==
    {x \in 1..Len(RulesOfService) :
        IsSubstring(RulesOfService[x].rule_name, operation)}

FirstMatching(operation) ==
    RulesOfService[CHOOSE x \in Matching(operation) :
                      \A y \in Matching(operation) : x <= y].rule

\* the first matching rule holds both its args and its kwargs
Complete(rule) == {"args", "kwargs"} \subseteq DOMAIN rule

\* test_all_operations of client i has looked up operation k and gone on
LookedUp(i, k) == probe[i][k].st # "unsubmitted"

\* test_all_operations of client i was left by an exception of the lookup
LookupRaised(i) == task[i].st = "raised" /\ task[i].exc = "KeyError"

(* C13: the lookup is first-match-wins in declaration order: an operation   *)
(* is probed with exactly the args and kwargs of the first rule of the       *)
(* service whose name is a substring of the operation name, nothing of later *)
(* matching rules merged in, and with ([], {}) when the service has no rules *)
(* or no rule matches; the lookup of such an operation does not raise.       *)
C13_FirstMatchWins ==
    \A i \in Clients :
        /\ \A k \in OpIndex :
              LookedUp(i, k) =>
                 IF Matching(operations[k]) = {}
                 THEN probe[i][k].args = <<>> /\ probe[i][k].kwargs = NoKwargs
                 ELSE /\ Complete(FirstMatching(operations[k]))
                      /\ probe[i][k].args = FirstMatching(operations[k]).args
                      /\ probe[i][k].kwargs =
                            FirstMatching(operations[k]).kwargs
        /\ LookupRaised(i) =>
              /\ Matching(operations[task[i].next]) # {}
              /\ ~ Complete(FirstMatching(operations[task[i].next]))

\* the claim's example: describe_specific above describe, and
\* describe_specific_thing probed with ([1], {a: 1})
C13_Witness ==
    /\ RulesOfService =
          <<Rule("describe_specific", [args |-> <<1>>, kwargs |-> [a |-> 1]]),
            Rule("describe", [args |-> <<2>>, kwargs |-> [a |-> 2]])>>
    /\ operations = <<"describe_specific_thing">>
    /\ pc = "done"
    /\ probe[1][1].args = <<1>>
    /\ probe[1][1].kwargs = [a |-> 1]

(* C14: when the first matching rule omits its args, its kwargs, or both,    *)
(* the lookup returns the part that is present and the empty default for     *)
(* each omitted part; it does not raise, and test_all_operations goes on to  *)
(* submit the probe of the operation.                                        *)
C14_OmittedPartsDefault ==
    \A i \in Clients :
        /\ ~ LookupRaised(i)
        /\ \A k \in OpIndex :
              (/\ LookedUp(i, k)
               /\ Matching(operations[k]) # {}
               /\ ~ Complete(FirstMatching(operations[k])))
              => LET rule == FirstMatching(operations[k])
                 IN  /\ probe[i][k].args =
                           IF "args" \in DOMAIN rule THEN rule.args ELSE <<>>
                     /\ probe[i][k].kwargs =
                           IF "kwargs" \in DOMAIN rule THEN rule.kwargs
                           ELSE NoKwargs

\* the regions in the outcome list of the report for operation k
ReportedWith(k, status) ==
    CASE status = "SUCCEEDED" -> RegionsOf(report[operations[k]].succeeded)
      [] status = "FAILED" -> RegionsOf(report[operations[k]].failed)
      [] status = "ERRORED" -> RegionsOf(report[operations[k]].errored)

(* C15: when scan has returned, the keys of the report are exactly the safe  *)
(* operations with at least one probe that returned a result, and for each   *)
(* of them the region of every probe that returned is in the outcome list of *)
(* that probe's status and in neither of the other two.                      *)
C15_EachRegionInItsOutcomeSet ==
    pc = "done" =>
        /\ DOMAIN report =
              {operations[k] : k \in {x \in OpIndex :
                                         \E i \in Clients : Returned(i, x)}}
        /\ \A n \in DOMAIN report : HasSafePrefix(n)
        /\ \A i \in Clients, k \in OpIndex :
              Returned(i, k) =>
                 \A status \in {"SUCCEEDED", "FAILED", "ERRORED"} :
                    (regions[i] \in ReportedWith(k, status))
                        <=> (probe[i][k].result.value.status = status)

----------------------------------------------------------------------------
(* The lines pretty_print_scan has returned *)

\* the ways to list the elements of a set, each once
Listings(S) ==
    {f \in [1..Cardinality(S) -> S] :
        \A i, j \in 1..Cardinality(S) : i # j => f[i] # f[j]}

\* the lines of a call that are about one operation and one marker
LinesAbout(lines, operation, marker) ==
    {x \in 1..Len(lines) :
        StartsWith(lines[x], "[" \o marker \o "] " \o operation \o " - ")}

Requested(marker) == marker = "+" \/ verbose

(* C16: in what pretty_print_scan returns there is, for each operation of    *)
(* the report and each marker asked for ("+" always, "-" and "!" only when   *)
(* non-successes are asked for), exactly one line if that outcome has a      *)
(* region and none if it has not, and no other line; the line reads          *)
(* "[marker] operation - All Regions" exactly when the outcome's regions are *)
(* regions_tested, and otherwise lists exactly the outcome's regions, each   *)
(* once, joined by commas.                                                   *)
C16_OneLinePerOutcome ==
    \A c \in 1..Len(formatted) :
        LET lines == formatted[c]
        IN  /\ \A n \in DOMAIN report, marker \in {"+", "-", "!"} :
                  LET rs == RegionsOf(TestResults(report[n], marker))
                      about == LinesAbout(lines, n, marker)
                  IN  IF ~ Requested(marker) \/ rs = {}
                      THEN about = {}
                      ELSE /\ Cardinality(about) = 1
                           /\ \A x \in about :
                                 IF rs = report[n].regions_tested
                                 THEN lines[x] = Line(marker, n, "All Regions")
                                 ELSE \E listing \in Listings(rs) :
                                         lines[x] =
                                            Line(marker, n, Join(",", listing))
            /\ \A x \in 1..Len(lines) :
                  \E n \in DOMAIN report, marker \in {"+", "-", "!"} :
                      x \in LinesAbout(lines, n, marker)

\* three regions tested, two of them succeeded and listed, the third failed and
\* printed because non-successes were asked for
C16_Witness ==
    /\ pc = "format"
    /\ Len(formatted) >= 1
    /\ verbose
    /\ "list_things" \in DOMAIN report
    /\ report["list_things"].regions_tested =
          {"us-east-1", "us-west-2", "eu-west-1"}
    /\ \E x \in 1..Len(formatted[1]) :
          formatted[1][x] = "[+] list_things - us-west-2,us-east-1"
    /\ \E x \in 1..Len(formatted[1]) :
          formatted[1][x] = "[-] list_things - eu-west-1"

----------------------------------------------------------------------------
(* The report against the order in which the futures completed *)

\* the results of the probes that returned, client by client and operation by
\* operation in the order of submission: the first n probes of that order
RECURSIVE InSubmissionOrder(_)
InSubmissionOrder(n) ==
    IF n = 0 THEN <<>>
    ELSE LET i == ((n - 1) \div Len(operations)) + 1
             k == ((n - 1) % Len(operations)) + 1
         IN  InSubmissionOrder(n - 1)
                \o (IF Returned(i, k) THEN <<probe[i][k].result.value>>
                    ELSE <<>>)

AllInSubmissionOrder == InSubmissionOrder(Len(regions) * Len(operations))

\* a report up to set membership
ReportContents(by_region) ==
    [n \in DOMAIN by_region |-> Contents(by_region[n])]

(* C18: the report scan returns does not depend on the order in which the    *)
(* probes and the per-client tasks completed: up to set membership (keys,    *)
(* regions_tested, regions in succeeded, failed and errored) it is the       *)
(* report the same probe outcomes give when folded in submission order.      *)
C18_SameReportInEveryOrder ==
    pc = "done" =>
        ReportContents(report)
            = ReportContents(Translate(EmptyReport, AllInSubmissionOrder))

\* scan returned after collecting the results in another order than the one
\* they were submitted in
C18_Witness ==
    /\ pc = "done"
    /\ Len(operation_permissions) >= 3
    /\ operation_permissions # AllInSubmissionOrder
    /\ \E x, y \in 1..Len(operation_permissions) :
          /\ operation_permissions[x].name = operation_permissions[y].name
          /\ operation_permissions[x].status # operation_permissions[y].status

(* C19: the report is written only by the thread that called scan, in the    *)
(* step that collects the last client's future, when every client's future   *)
(* has been collected and every probe of every client has finished; the      *)
(* result list of a client is written only by that client's own              *)
(* test_all_operations task while it collects, and no step writes two result *)
(* lists or a result list and the report.                                    *)
C19_SingleWriter ==
    [][/\ report' # report =>
             /\ pc = "collect"
             /\ \A i \in Clients :
                   /\ task'[i].st = "collected"
                   /\ \A k \in OpIndex : probe[i][k].st = "finished"
             /\ results' = results
       /\ \A i \in Clients :
             (pc # "new" /\ results'[i] # results[i]) =>
                 /\ task[i].st = "collecting"
                 /\ \A j \in Clients \ {i} : results'[j] = results[j]
                 /\ report' = report]_vars

\* the report written after two clients' result lists were collected
C19_Witness ==
    /\ pc = "done"
    /\ Len(regions) >= 2
    /\ \A i \in Clients : results[i] # <<>>
    /\ DOMAIN report # {}

(* C20: at every point of a run over several services the client tasks and  *)
(* the probes running on the shared pool together hold no more workers than  *)
(* the pool has, so the provider calls in flight never exceed the pool's     *)
(* cap; tasks of both levels wait in the one queue of that pool.             *)
C20_InFlightWithinPoolCap ==
    /\ Cardinality(RunningProbes) <= max_workers
    /\ Cardinality(RunningProbes) + Cardinality(RunningAll) <= max_workers
    /\ \A i \in Clients :
          /\ task[i].st = "queued" =>
                \E x \in 1..Len(work_queue) :
                    work_queue[x] = TestAllOperationsTask(i)
          /\ \A k \in OpIndex :
                probe[i][k].st = "queued" =>
                   \E x \in 1..Len(work_queue) :
                       work_queue[x] = TestPermissionTask(i, k)

\* the second service of a run, with two probes in flight next to the client
\* task that waits for them, and every worker of the pool in use
C20_Witness ==
    /\ Len(output) = 1
    /\ Cardinality(RunningProbes) >= 2
    /\ RunningAll # {}
    /\ Cardinality(RunningProbes) + Cardinality(RunningAll) = max_workers

----------------------------------------------------------------------------
(* The scans of the target services and the futures aws holds *)

\* Service.scan of service_name is under way
Scanning == pc \in {"submit", "collect"}

\* the target services whose scan is under way
ServicesBeingScanned == IF Scanning THEN {service_name} ELSE {}

\* the services aws has submitted a future for
ServicesSubmitted == {futures[x].service : x \in 1..Len(futures)}

(* C21: the scan of each target service is executed as a task of the worker  *)
(* pool: what aws submits for a service is the call of scan_service, and a   *)
(* service is scanned only once its task has been submitted, so that the     *)
(* scans of two services can be under way at once.                           *)
C21_ServiceScanIsPoolTask ==
    /\ \A x \in 1..Len(futures) : futures[x].fn = "scan_service"
    /\ Scanning => service_name \in ServicesSubmitted

====
